---- MODULE Spec2Model ----
(***************************************************************************)
(* AuditFlow (src/app.py): the AuditWorkflow task registry, its dependency *)
(* graph, the synthetic-task generator, the reminder predicate, the e-mail *)
(* pattern and the Streamlit script that drives them.                      *)
(*                                                                         *)
(* Values.  A string the code inspects character by character (an e-mail   *)
(* address) is a sequence of one-character strings.  A due-date text is a  *)
(* triple <<year, month, day>>: the three fields "%Y-%m-%d" reads; a text  *)
(* whose fields are out of range is one strptime rejects.  A datetime is a *)
(* whole number of ticks, TicksPerDay ticks to the day, tick 0 being       *)
(* 2025-01-01 00:00; the calendar covers the year 2025.                    *)
(***************************************************************************)
EXTENDS Integers, Sequences, FiniteSets, TLC

VARIABLES
  tasks,       \* self.tasks: the list of task dicts
  task_graph,  \* self.task_graph: [nodes: id -> label, edges: set of <<u, v>>]
  now,         \* the wall clock datetime.datetime.now() reads, in ticks
  gen,         \* position of a running generate_fake_tasks call
  call,        \* the last call made: its name and arguments
  ret,         \* what that call returned
  err,         \* the message that call passed to st.error ("" if none)
  pre,         \* tasks and task_graph as they were when that call began
  email,       \* validate_email: the argument
  matched,     \* validate_email: the value returned
  rtask,       \* send_reminder: the task argument
  reminder,    \* send_reminder: what the call did
  ui           \* the Streamlit session: the script run last executed

vars == <<tasks, task_graph, now, gen, call, ret, err, pre,
          email, matched, rtask, reminder, ui>>

(***************************************************************************)
(* Bounds of the model.                                                    *)
(***************************************************************************)
TicksPerDay == 2     \* clock resolution: tick 0 of a day is 00:00:00.000000
StartDay == 57       \* the day the clock starts on: 2025-02-27
MaxTicks == 1        \* how far the clock advances in the registry model
MaxTasks == 2        \* calls are made while the list is shorter than this
MaxBatch == 2        \* largest num_tasks passed to generate_fake_tasks
MaxEmailLen == 6     \* longest string passed to validate_email

None == "None"

(***************************************************************************)
(* datetime: strptime / strftime with '%Y-%m-%d', timedelta, .days         *)
(***************************************************************************)
DaysInMonth == <<31, 28, 31, 30, 31, 30, 31, 31, 30, 31, 30, 31>>

RECURSIVE DaysBefore(_)
DaysBefore(m) == IF m <= 1 THEN 0 ELSE DaysBefore(m - 1) + DaysInMonth[m - 1]

\* Whether strptime(text, '%Y-%m-%d') returns rather than raises ValueError.
Parseable(text) ==
  /\ text[1] = 2025
  /\ text[2] \in 1..12
  /\ text[3] >= 1
  /\ text[3] <= DaysInMonth[text[2]]

\* datetime.datetime.strptime(text, '%Y-%m-%d'): midnight of that day.
strptime(text) == (DaysBefore(text[2]) + text[3] - 1) * TicksPerDay

\* dt.strftime('%Y-%m-%d')
strftime(dt) ==
  LET ord == dt \div TicksPerDay
      m == CHOOSE k \in 1..12 :
             DaysBefore(k) <= ord /\ ord < DaysBefore(k) + DaysInMonth[k]
  IN <<2025, m, ord - DaysBefore(m) + 1>>

\* datetime.timedelta(days=k)
timedelta(k) == k * TicksPerDay

\* (a - b).days: timedelta normalises so that days is the floor.
days_between(a, b) == (a - b) \div TicksPerDay

(***************************************************************************)
(* validate_email                                                          *)
(***************************************************************************)
Lower == {"a", "b", "c", "d", "e", "f", "g", "h", "i", "j", "k", "l", "m",
          "n", "o", "p", "q", "r", "s", "t", "u", "v", "w", "x", "y", "z"}
Upper == {"A", "B", "C", "D", "E", "F", "G", "H", "I", "J", "K", "L", "M",
          "N", "O", "P", "Q", "R", "S", "T", "U", "V", "W", "X", "Y", "Z"}
Digit == {"0", "1", "2", "3", "4", "5", "6", "7", "8", "9"}

\* [a-zA-Z0-9._%+-]
LocalClass == Lower \cup Upper \cup Digit \cup {".", "_", "%", "+", "-"}
\* [a-zAZ0-9.-] : the range a-z, the two letters A and Z, the digits, . and -
DomainClass == Lower \cup {"A", "Z"} \cup Digit \cup {".", "-"}
\* [a-zA-Z]
TldClass == Lower \cup Upper

AllIn(s, lo, hi, class) == \A k \in lo..hi : s[k] \in class

\* s, whole, is  local+ "@" domain+ "." tld{2,}  for some split (the regex
\* engine backtracks over every split).
FullMatch(s, local, domain, tld) ==
  \E i \in 1..Len(s) : \E j \in (i + 2)..Len(s) :
    /\ AllIn(s, 1, i, local)
    /\ i + 1 <= Len(s) /\ s[i + 1] = "@"
    /\ AllIn(s, i + 2, j, domain)
    /\ j + 1 <= Len(s) /\ s[j + 1] = "."
    /\ Len(s) - (j + 1) >= 2
    /\ AllIn(s, j + 2, Len(s), tld)

\* re.match(pattern, email) is not None, the pattern anchored by ^ and $:
\* $ matches at the end of the string and also just before a newline that
\* ends the string.
validate_email(e) ==
  \/ FullMatch(e, LocalClass, DomainClass, TldClass)
  \/ /\ Len(e) >= 1
     /\ e[Len(e)] = "\n"
     /\ FullMatch(SubSeq(e, 1, Len(e) - 1), LocalClass, DomainClass, TldClass)

(***************************************************************************)
(* networkx.DiGraph                                                        *)
(***************************************************************************)
NoLabel == "<no label>"   \* a node add_edge created: it has no 'label'

EmptyGraph == [nodes |-> <<>>, edges |-> {}]

\* G.add_node(n, label=l): adds n, or updates the label of n
add_node(G, n, l) ==
  [nodes |-> [x \in DOMAIN G.nodes \cup {n} |-> IF x = n THEN l ELSE G.nodes[x]],
   edges |-> G.edges]

\* G.add_edge(u, v): adds the edge, and u and v as nodes if they are not
add_edge(G, u, v) ==
  [nodes |-> [x \in DOMAIN G.nodes \cup {u, v} |->
                IF x \in DOMAIN G.nodes THEN G.nodes[x] ELSE NoLabel],
   edges |-> G.edges \cup {<<u, v>>}]

(***************************************************************************)
(* AuditWorkflow.add_task                                                  *)
(***************************************************************************)
ErrId == "Task ID must be unique and non-empty"
ErrDescription == "Description cannot be empty"
ErrEmail == "Invalid email format"
ErrFormat == "time data does not match format '%Y-%m-%d'"
ErrPast == "Due date cannot be in the past"
ErrDependency(dep) == "Dependency " \o dep \o " does not exist"

\* [t['id'] for t in ts]
IdsOf(ts) == [k \in 1..Len(ts) |-> ts[k].id]

InSeq(x, s) == \E k \in 1..Len(s) : s[k] = x

\* not task_id or task_id in [t['id'] for t in self.tasks]
IdRejected_EmptyOnly(ts, task_id) == task_id = ""
IdRejected(ts, task_id) == task_id = "" \/ InSeq(task_id, IdsOf(ts))

\* due_date_obj < datetime.datetime.now()
InThePast(due_date_obj, clock) == due_date_obj < clock

\* The loop over dependencies: each is looked up among the tasks stored
\* before this one (self.tasks[:-1]); the first that is missing raises, the
\* edges of the ones before it having been added.
RECURSIVE add_edges_unchecked(_, _, _, _)
add_edges_unchecked(G, deps, task_id, prior_ids) ==
  IF deps = <<>> THEN [task_graph |-> G, err |-> ""]
  ELSE add_edges_unchecked(add_edge(G, Head(deps), task_id), Tail(deps),
                           task_id, prior_ids)

RECURSIVE add_edges(_, _, _, _)
add_edges(G, deps, task_id, prior_ids) ==
  IF deps = <<>> THEN [task_graph |-> G, err |-> ""]
  ELSE IF ~InSeq(Head(deps), prior_ids)
    THEN [task_graph |-> G, err |-> ErrDependency(Head(deps))]
  ELSE add_edges(add_edge(G, Head(deps), task_id), Tail(deps), task_id, prior_ids)

Failed(ts, G, msg) == [tasks |-> ts, task_graph |-> G, ret |-> FALSE, err |-> msg]

\* add_task on the registry (ts, G) at clock reading clock: the registry it
\* leaves, the value returned and the message reported.
add_task(ts, G, clock, task_id, description, due_date, dependencies, assignee_email) ==
  IF IdRejected(ts, task_id) THEN Failed(ts, G, ErrId)
  ELSE IF description = "" THEN Failed(ts, G, ErrDescription)
  ELSE IF ~validate_email(assignee_email) THEN Failed(ts, G, ErrEmail)
  ELSE IF ~Parseable(due_date) THEN Failed(ts, G, ErrFormat)
  ELSE IF InThePast(strptime(due_date), clock) THEN Failed(ts, G, ErrPast)
  ELSE
    LET task == [id |-> task_id,
                 description |-> description,
                 due_date |-> strptime(due_date),
                 dependencies |-> dependencies,
                 assignee_email |-> assignee_email,
                 status |-> "Pending"]
        stored == Append(ts, task)
        looped == add_edges(add_node(G, task_id, description), dependencies,
                            task_id, IdsOf(ts))
    IN [tasks |-> stored,
        task_graph |-> looped.task_graph,
        ret |-> (looped.err = ""),
        err |-> looped.err]

(***************************************************************************)
(* AuditWorkflow.generate_fake_tasks                                       *)
(***************************************************************************)
\* f"T{k}"
TID(k) == "T" \o ToString(k)

\* [f"T{i+1}" for i in range(len(self.tasks) + 1, len(self.tasks) + num_tasks + 1)]
batch_ids(ts, num_tasks) == [k \in 1..num_tasks |-> TID(Len(ts) + k + 1)]

\* [t['id'] for t in self.tasks] + task_ids[:i]
existing_ids(ts, task_ids, i) == IdsOf(ts) \o SubSeq(task_ids, 1, i)

Min(a, b) == IF a <= b THEN a ELSE b

\* random.sample(population, k): k positions of the population, no position
\* twice, in the order drawn.
Samples(population, k) ==
  {p \in [1..k -> 1..Len(population)] :
     \A a, b \in 1..k : a # b => p[a] # p[b]}

\* What Faker returns: sentence(nb_words=6) is a non-empty sentence, email()
\* an address in lower case at a reserved example domain.
FakerSentences == {"Fake sentence of six words."}
FakerEmails == {<<"j", "@", "e", "x", ".", "o", "r", "g">>}

\* random.randint(1, 10) days ahead: the two ends of the range
FakeDays == {1, 10}
\* random.randint(0, 2) dependencies
FakeDepCounts == 0..2

(***************************************************************************)
(* The registry: calls made by hand and batches, one after another.        *)
(***************************************************************************)
ManualIds == {"", "A", "T3"}
Descriptions == {"", "Collect evidence"}
Emails == {<<"a", "@", "b", ".", "c", "o">>,     \* accepted
           <<"a", "@", "B", ".", "c", "o">>,     \* upper case in the domain
           <<"a", "b", ".", "c", "o">>}          \* no @
DepIds == {"A", "T9"}
\* dependency lists: every list over DepIds that names no ID twice
DepLists ==
  UNION {{d \in [1..k -> DepIds] : \A a, b \in 1..k : a # b => d[a] # d[b]} :
           k \in 0..Cardinality(DepIds)}
BadDateText == <<2025, 2, 30>>
\* due-date texts: yesterday, today, tomorrow, and one strptime rejects
DueTexts(clock) ==
  {strftime(clock - timedelta(1)), strftime(clock), strftime(clock + timedelta(1)),
   BadDateText}

NoCall == [op |-> "none", by |-> "none", task_id |-> "", description |-> "",
           due_date |-> <<0, 0, 0>>, dependencies |-> <<>>,
           assignee_email |-> <<>>, clock |-> 0]
Idle == [active |-> FALSE, task_ids |-> <<>>, i |-> 0, ok |-> <<>>, start_ids |-> <<>>]

Others == <<email, matched, rtask, reminder, ui>>
Registry == <<tasks, task_graph, now, gen, call, ret, err, pre>>

\* AuditWorkflow.__init__
NewWorkflow == [tasks |-> <<>>, task_graph |-> EmptyGraph]

InitRegistry ==
  /\ tasks = NewWorkflow.tasks
  /\ task_graph = NewWorkflow.task_graph
  /\ now = StartDay * TicksPerDay
  /\ gen = Idle
  /\ call = NoCall
  /\ ret = TRUE
  /\ err = ""
  /\ pre = NewWorkflow

Init ==
  /\ InitRegistry
  /\ email = <<>>
  /\ matched = FALSE
  /\ rtask = None
  /\ reminder = None
  /\ ui = None

\* One add_task call, start to return.
Call(by, task_id, description, due_date, dependencies, assignee_email) ==
  LET r == add_task(tasks, task_graph, now, task_id, description, due_date,
                    dependencies, assignee_email)
  IN /\ tasks' = r.tasks
     /\ task_graph' = r.task_graph
     /\ ret' = r.ret
     /\ err' = r.err
     /\ pre' = [tasks |-> tasks, task_graph |-> task_graph]
     /\ call' = [op |-> "add_task", by |-> by, task_id |-> task_id,
                 description |-> description, due_date |-> due_date,
                 dependencies |-> dependencies,
                 assignee_email |-> assignee_email, clock |-> now]

\* add_task called by hand.
AddTask ==
  /\ call.op = "none"
  /\ ~gen.active
  /\ Len(tasks) < MaxTasks
  /\ \E task_id \in ManualIds, description \in Descriptions,
        due_date \in DueTexts(now), dependencies \in DepLists,
        assignee_email \in Emails :
       Call("user", task_id, description, due_date, dependencies,
            assignee_email)
  /\ UNCHANGED <<now, gen, Others>>

\* the IDs of a batch that no stored task has yet
NewIds(ts, num_tasks) ==
  {batch_ids(ts, num_tasks)[k] : k \in 1..num_tasks} \ {ts[k].id : k \in 1..Len(ts)}

\* generate_fake_tasks(num_tasks) up to the loop; a batch is started only if
\* the list stays within MaxTasks.
GenStart ==
  /\ call.op = "none"
  /\ ~gen.active
  /\ \E num_tasks \in 1..MaxBatch :
       /\ Len(tasks) + Cardinality(NewIds(tasks, num_tasks)) <= MaxTasks
       /\ gen' = [active |-> TRUE, task_ids |-> batch_ids(tasks, num_tasks),
                  i |-> 0, ok |-> <<>>, start_ids |-> IdsOf(tasks)]
  /\ UNCHANGED <<tasks, task_graph, now, call, ret, err, pre, Others>>

\* One turn of the loop of generate_fake_tasks; after the last the call
\* returns True.
GenStep ==
  /\ call.op = "none"
  /\ gen.active
  /\ LET ids == existing_ids(tasks, gen.task_ids, gen.i) IN
     \E description \in FakerSentences, days \in FakeDays, n \in FakeDepCounts,
        assignee_email \in FakerEmails :
     \E picks \in Samples(ids, Min(Len(ids), n)) :
       /\ Call("generate_fake_tasks", gen.task_ids[gen.i + 1], description,
               strftime(now + timedelta(days)),
               [k \in 1..Len(picks) |-> ids[picks[k]]], assignee_email)
       /\ gen' = [gen EXCEPT !.i = gen.i + 1,
                             !.ok = Append(gen.ok, ret'),
                             !.active = (gen.i + 1 < Len(gen.task_ids))]
  /\ UNCHANGED <<now, Others>>

\* The caller takes the value returned and goes on: nothing is left of the
\* call but the registry.
Return ==
  /\ call.op # "none"
  /\ call' = NoCall
  /\ ret' = TRUE
  /\ err' = ""
  /\ pre' = NewWorkflow
  /\ UNCHANGED <<tasks, task_graph, now, gen, Others>>

\* Time passes between one call and the next.
Tick ==
  /\ call.op = "none"
  /\ ~gen.active
  /\ now < StartDay * TicksPerDay + MaxTicks
  /\ now' = now + 1
  /\ UNCHANGED <<tasks, task_graph, gen, call, ret, err, pre, Others>>

Next == AddTask \/ GenStart \/ GenStep \/ Return \/ Tick

Spec == Init /\ [][Next]_vars

(***************************************************************************)
(* Properties of the registry (specification Spec)                         *)
(***************************************************************************)
IsAddTask == call.op = "add_task"

Known(dep) == InSeq(dep, IdsOf(pre.tasks))
HasUnknownDep == \E k \in 1..Len(call.dependencies) : ~Known(call.dependencies[k])
RegistryUntouched == tasks = pre.tasks /\ task_graph = pre.task_graph

\* C1: an add_task call with a dependency that names no stored task returns
\* False and leaves the task list, the nodes and the edges as they were.
C1_AtomicRegistration ==
  (IsAddTask /\ HasUnknownDep) => (ret = FALSE /\ RegistryUntouched)

\* C2: stored IDs are non-empty and pairwise different, and an add_task call
\* whose ID is empty or already stored returns False and changes nothing.
C2_UniqueIds ==
  /\ \A i \in 1..Len(tasks) : tasks[i].id # ""
  /\ \A i, j \in 1..Len(tasks) : i # j => tasks[i].id # tasks[j].id
  /\ (IsAddTask /\ (call.task_id = "" \/ Known(call.task_id)))
       => (ret = FALSE /\ err = ErrId /\ RegistryUntouched)

\* a call that repeated the ID of a stored task was refused
C2_Witness ==
  /\ IsAddTask
  /\ call.task_id # ""
  /\ Known(call.task_id)
  /\ ret = FALSE
  /\ Len(tasks) >= 1

\* The pattern the specification gives for an assignee e-mail:
\* local@domain.tld, local of letters, digits, . _ % + -, domain of letters,
\* digits, . and -, tld of two or more letters.
ReferenceEmail(e) ==
  FullMatch(e, Lower \cup Upper \cup Digit \cup {".", "_", "%", "+", "-"},
            Lower \cup Upper \cup Digit \cup {".", "-"}, Lower \cup Upper)

\* calendar day of a datetime
DayOf(dt) == dt \div TicksPerDay

FirstUnknownDep ==
  call.dependencies[CHOOSE k \in 1..Len(call.dependencies) :
                      /\ ~Known(call.dependencies[k])
                      /\ \A h \in 1..(k - 1) : Known(call.dependencies[h])]

\* The error the six rules of the specification give the last call, the
\* first violated rule deciding.
FirstViolatedRule ==
  IF call.task_id = "" \/ Known(call.task_id) THEN ErrId
  ELSE IF call.description = "" THEN ErrDescription
  ELSE IF ~ReferenceEmail(call.assignee_email) THEN ErrEmail
  ELSE IF ~Parseable(call.due_date) THEN ErrFormat
  ELSE IF DayOf(strptime(call.due_date)) < DayOf(call.clock) THEN ErrPast
  ELSE IF HasUnknownDep THEN ErrDependency(FirstUnknownDep)
  ELSE ""

\* C3: the error an add_task call reports is the one of the first rule it
\* violates, in the order ID, description, e-mail, date format, past date,
\* unknown dependency.
C3_FirstFailureWins == IsAddTask => err = FirstViolatedRule

OthersValid ==
  /\ IsAddTask
  /\ call.task_id # "" /\ ~Known(call.task_id)
  /\ call.description # ""
  /\ ReferenceEmail(call.assignee_email) /\ validate_email(call.assignee_email)
  /\ ~HasUnknownDep

\* C4: all else valid, a due date of today is accepted at any time of the day
\* and a due date of yesterday is refused as past.
C4_DueDateBoundary ==
  (OthersValid /\ Parseable(call.due_date)) =>
    /\ DayOf(strptime(call.due_date)) = DayOf(call.clock) => ret = TRUE
    /\ DayOf(strptime(call.due_date)) = DayOf(call.clock) - 1
         => (ret = FALSE /\ err = ErrPast)

\* position of the first stored task with this ID (0 if there is none)
PositionOf(id) ==
  IF InSeq(id, IdsOf(tasks))
    THEN CHOOSE k \in 1..Len(tasks) : tasks[k].id = id /\ \A h \in 1..(k - 1) : tasks[h].id # id
    ELSE 0

Compose(R, S) == UNION {{<<p[1], q[2]>> : q \in {e \in S : e[1] = p[2]}} : p \in R}

RECURSIVE PathsUpTo(_, _)
PathsUpTo(E, k) ==
  IF k <= 1 THEN E ELSE LET P == PathsUpTo(E, k - 1) IN P \cup Compose(P, E)

\* every pair <<u, v>> with a directed path of one or more edges from u to v
Paths(G) == PathsUpTo(G.edges, Cardinality(DOMAIN G.nodes))

Labelled(G, n) == n \in DOMAIN G.nodes /\ G.nodes[n] # NoLabel

\* C7: every edge runs from the ID of a task stored earlier to the ID of a
\* task stored later, both its ends were labelled nodes when it was added
\* (the source before the call, the target by the call itself), and the graph
\* has no self-loop and no directed cycle.
C7_Acyclic ==
  /\ \A e \in task_graph.edges :
       /\ PositionOf(e[1]) >= 1
       /\ PositionOf(e[1]) < PositionOf(e[2])
       /\ Labelled(task_graph, e[1])
       /\ Labelled(task_graph, e[2])
       /\ e[1] # e[2]
  /\ IsAddTask =>
       \A e \in task_graph.edges \ pre.task_graph.edges :
         /\ Labelled(pre.task_graph, e[1])
         /\ e[2] = call.task_id
         /\ task_graph.nodes[e[2]] = call.description
  /\ \A p \in Paths(task_graph) : p[1] # p[2]

\* a call that failed on its second dependency has added the edge of its
\* first
C7_Witness ==
  /\ IsAddTask
  /\ ret = FALSE
  /\ task_graph.edges # pre.task_graph.edges
  /\ Len(tasks) >= 2

IsBatchCall == IsAddTask /\ call.by = "generate_fake_tasks"

\* C8: the dependencies chosen for a batch item all name stored tasks, none
\* is the ID of an earlier item of the batch that was not registered, and the
\* item does not fail on an unknown dependency.
C8_BatchDependenciesExist ==
  IsBatchCall =>
    /\ \A k \in 1..Len(call.dependencies) : Known(call.dependencies[k])
    /\ \A j \in 1..(gen.i - 1) :
         ~gen.ok[j] => ~InSeq(gen.task_ids[j], call.dependencies)
    /\ ~HasUnknownDep
    /\ err \notin {ErrDependency(call.dependencies[k]) : k \in 1..Len(call.dependencies)}

\* the number n of an ID of the form T<n> (0 for any other ID)
SuffixNumbers == 1..(MaxTasks + MaxBatch + 2)
SuffixOf(id) ==
  IF \E n \in SuffixNumbers : TID(n) = id
    THEN CHOOSE n \in SuffixNumbers : TID(n) = id
    ELSE 0

RECURSIVE HighestSuffix(_)
HighestSuffix(ids) ==
  IF ids = <<>> THEN 0
  ELSE LET h == HighestSuffix(Tail(ids))
           n == SuffixOf(Head(ids))
       IN IF n > h THEN n ELSE h

\* C9: a batch of n is given the IDs T(k+1) .. T(k+n), k the highest
\* numeric suffix among the stored IDs (0 if there is none), so none of them
\* is a stored ID.
C9_SequentialIds ==
  gen.task_ids # <<>> =>
    /\ gen.task_ids = [j \in 1..Len(gen.task_ids) |->
                         TID(HighestSuffix(gen.start_ids) + j)]
    /\ \A j \in 1..Len(gen.task_ids) : ~InSeq(gen.task_ids[j], gen.start_ids)

(***************************************************************************)
(* validate_email on every short string (specification SpecEmail)          *)
(***************************************************************************)
Alphabet == {"a", "A", "B", "1", ".", "-", "@"}
Strings == UNION {[1..n -> Alphabet] : n \in 0..MaxEmailLen}

InitEmail ==
  /\ InitRegistry
  /\ email \in Strings
  /\ matched = [done |-> FALSE, value |-> FALSE]
  /\ rtask = None
  /\ reminder = None
  /\ ui = None

ValidateEmail ==
  /\ ~matched.done
  /\ matched' = [done |-> TRUE, value |-> validate_email(email)]
  /\ UNCHANGED <<Registry, email, rtask, reminder, ui>>

NextEmail == ValidateEmail

SpecEmail == InitEmail /\ [][NextEmail]_vars

\* C6: validate_email accepts a string exactly when it has the form
\* local@domain.tld of the specification.
C6_EmailPattern == matched.done => (matched.value = ReferenceEmail(email))

(***************************************************************************)
(* AuditWorkflow.send_reminder (specification SpecReminder)                *)
(***************************************************************************)
ReminderSpan == 5    \* due dates up to this many days before and after

\* days_until_due <= 2 and task['status'] == 'Pending'
reminder_due(task, clock) ==
  days_between(task.due_date, clock) <= 2 /\ task.status = "Pending"

Statuses == {"Pending", "Done"}

ReminderTasks ==
  {[id |-> "T1", description |-> "Collect evidence",
    due_date |-> (StartDay + d) * TicksPerDay, dependencies |-> <<>>,
    assignee_email |-> <<"a", "@", "b", ".", "c", "o">>, status |-> st] :
     d \in (0 - ReminderSpan)..ReminderSpan, st \in Statuses}

NotCalled == [done |-> FALSE, clock |-> 0, days_until_due |-> 0,
              attempted |-> FALSE, ret |-> FALSE]

InitReminder ==
  /\ InitRegistry
  /\ email = <<>>
  /\ matched = FALSE
  /\ rtask \in ReminderTasks
  /\ reminder = NotCalled
  /\ ui = None

\* send_reminder(task): the message is built and handed to SMTP when the
\* task is due; the call returns True if SMTP took it, False otherwise.
SendReminder ==
  /\ \E smtp_ok \in BOOLEAN :
       reminder' = [done |-> TRUE, clock |-> now,
                    days_until_due |-> days_between(rtask.due_date, now),
                    attempted |-> reminder_due(rtask, now),
                    ret |-> (reminder_due(rtask, now) /\ smtp_ok)]
  /\ UNCHANGED <<Registry, email, matched, rtask, ui>>

NextReminder == SendReminder \/ Tick

SpecReminder == InitReminder /\ [][NextReminder]_vars

\* C5: a reminder is attempted exactly when the task is Pending and its due
\* date is at most 2 calendar days after the current date.
C5_ReminderEligibility ==
  reminder.done =>
    (reminder.attempted <=>
       (/\ rtask.status = "Pending"
        /\ DayOf(rtask.due_date) - DayOf(reminder.clock) <= 2))

(***************************************************************************)
(* The Streamlit script after login (specification SpecUI).  Streamlit     *)
(* runs the script from its first line on every interaction; st.button     *)
(* returns True only for the button that caused the run.                   *)
(***************************************************************************)
DefaultNumTasks == 5    \* generate_fake_tasks(self, num_tasks=5)

GenerateButton == "Generate Fake Tasks"
VisualizeButton == "Visualize Workflow"
ReportButton == "Generate Audit Report"

NotShown == [shown |-> FALSE, nodes |-> {}, edges |-> {}]

\* visualize_workflow: None for a graph with no node, else the Digraph
visualize_workflow(G) ==
  IF DOMAIN G.nodes = {} THEN NotShown
  ELSE [shown |-> TRUE,
        nodes |-> {<<n, G.nodes[n]>> : n \in DOMAIN G.nodes},
        edges |-> G.edges]

NoReport == [made |-> FALSE, rows |-> <<>>]

\* generate_report: None for an empty task list, else one row per task
generate_report(ts) ==
  IF ts = <<>> THEN NoReport
  ELSE [made |-> TRUE,
        rows |-> [r \in 1..Len(ts) |->
                    <<ts[r].id, ts[r].description, strftime(ts[r].due_date),
                      ts[r].dependencies, ts[r].assignee_email, ts[r].status>>]]

\* for task in audit_workflow.tasks: audit_workflow.send_reminder(task)
Reminded(ts, clock) == {ts[k].id : k \in {h \in 1..Len(ts) : reminder_due(ts[h], clock)}}

InitUI ==
  /\ InitRegistry
  /\ email = <<>>
  /\ matched = FALSE
  /\ rtask = None
  /\ reminder = None
  /\ ui = [pc |-> "idle", button |-> None, chart |-> NotShown,
           report |-> NoReport, reminded |-> {}, registered |-> {}]

\* A run of the script caused by a button other than Generate Fake Tasks
\* (or by none): a new AuditWorkflow, then the branch of the button, then
\* the reminders.
RunScript ==
  /\ ui.pc = "idle"
  /\ call.op = "none"
  /\ \E button \in {None, VisualizeButton, ReportButton} :
       LET audit_workflow == NewWorkflow IN
       /\ tasks' = audit_workflow.tasks
       /\ task_graph' = audit_workflow.task_graph
       /\ ui' = [ui EXCEPT
                   !.button = button,
                   !.chart = IF button = VisualizeButton
                               THEN visualize_workflow(audit_workflow.task_graph)
                               ELSE NotShown,
                   !.report = IF button = ReportButton
                                THEN generate_report(audit_workflow.tasks)
                                ELSE NoReport,
                   !.reminded = Reminded(audit_workflow.tasks, now)]
  /\ UNCHANGED <<now, gen, call, ret, err, pre, email, matched, rtask, reminder>>

\* A run caused by Generate Fake Tasks, up to the loop of generate_fake_tasks.
RunGenerate ==
  /\ ui.pc = "idle"
  /\ call.op = "none"
  /\ LET audit_workflow == NewWorkflow IN
     /\ tasks' = audit_workflow.tasks
     /\ task_graph' = audit_workflow.task_graph
     /\ gen' = [active |-> TRUE,
                task_ids |-> batch_ids(audit_workflow.tasks, DefaultNumTasks),
                i |-> 0, ok |-> <<>>, start_ids |-> IdsOf(audit_workflow.tasks)]
  /\ ui' = [ui EXCEPT !.pc = "generating", !.button = GenerateButton,
                      !.chart = NotShown, !.report = NoReport, !.reminded = {}]
  /\ UNCHANGED <<now, call, ret, err, pre, email, matched, rtask, reminder>>

\* That run from the return of generate_fake_tasks to the end of the script.
RunGenerateEnd ==
  /\ ui.pc = "generating"
  /\ ~gen.active
  /\ call.op = "none"
  /\ ui' = [ui EXCEPT !.pc = "idle",
                      !.reminded = Reminded(tasks, now),
                      !.registered = ui.registered \cup {tasks[k].id : k \in 1..Len(tasks)}]
  /\ UNCHANGED <<Registry, email, matched, rtask, reminder>>

NextUI == RunScript \/ RunGenerate \/ GenStep \/ Return \/ RunGenerateEnd

SpecUI == InitUI /\ [][NextUI]_vars

\* C10: once Generate Fake Tasks has registered tasks, a later Visualize
\* Workflow or Generate Audit Report of the session works on a registry that
\* still holds them: the chart shows their nodes, the report has their rows.
C10_RegistryPersists ==
  (ui.pc = "idle" /\ ui.registered # {}) =>
    /\ \A id \in ui.registered : InSeq(id, IdsOf(tasks)) /\ id \in DOMAIN task_graph.nodes
    /\ ui.button = VisualizeButton =>
         /\ ui.chart.shown
         /\ \A id \in ui.registered : \E n \in ui.chart.nodes : n[1] = id
    /\ ui.button = ReportButton =>
         /\ ui.report.made
         /\ \A id \in ui.registered :
              \E r \in 1..Len(ui.report.rows) : ui.report.rows[r][1] = id

====
